---- MODULE Spec2Model ----
(***************************************************************************)
(* Foreign-field gadgets of o1js (bn254 variant): limb tuples, range       *)
(* checks, the ffadd gate and the gadgets built on them.                   *)
(*                                                                         *)
(* A gadget call is one step of the state machine: Init draws the inputs   *)
(* and the mode (all operands constant, or at least one variable), the     *)
(* action runs the gadget as the prover does: it computes the witnesses    *)
(* and checks every emitted constraint against them.  A call "fails" when  *)
(* an assertion throws or a constraint is not satisfied by the witness.    *)
(*                                                                         *)
(* Scale: the limb width l (88 in the program) and the native modulus p    *)
(* are scaled down so that every value fits TLC's integers; all other      *)
(* sizes are derived from l the way the program derives them from 88.      *)
(***************************************************************************)
EXTENDS Integers, Sequences, FiniteSets, TLC

VARIABLES op, mode, f, xs, signs, args, ok, out,
          runMode, inProverBlock, heap, option

vars == <<op, mode, f, xs, signs, args, ok, out, runMode, inProverBlock, heap, option>>

\* the Unconstrained containers a program holds
Boxes == {"a", "b"}

\* no checked computation is running and no Unconstrained has been created
NoUnconstrained ==
  /\ runMode = "plain"
  /\ inProverBlock = FALSE
  /\ heap = <<>>
  /\ option = [b \in Boxes |-> 0]

(***************************************************************************)
(* Sizes                                                                   *)
(***************************************************************************)
\* limb width in bits (88 in the program)
l == 2

\* longest chain of signs given to sum
MaxSigns == 2

\* most elements handed to assertAlmostReduced in one call
MaxElems == 4

lMaskPlus1 == 2 ^ l
l2 == 2 * l
l3 == 3 * l
twoL == 2 ^ l2
twoL3 == 2 ^ l3
lMask == lMaskPlus1 - 1
\* native modulus: a prime between 2^(2l) and 2^(3l), as the bn254 scalar
\* field lies between 2^176 and 2^264
p == 3 * 2 ^ (l3 - 2) - 1

\* the largest modulus size ffmul supports (259 = 3*88 - 5 in the program)
mulModulusBits == l3 - 1

(***************************************************************************)
(* Native field and bigint helpers                                         *)
(***************************************************************************)
mod(x, m) == x % m

\* FieldConst.fromBigint / exists(): a bigint becomes a native field element
Fp(x) == x % p

Signs == {1, -1}

combine(x) == x[1] + x[2] * lMaskPlus1 + x[3] * twoL

combine2(x) == x[1] + x[2] * lMaskPlus1

split(x) == <<x % lMaskPlus1, (x \div lMaskPlus1) % lMaskPlus1,
              (x \div twoL) % lMaskPlus1>>

split2(x) == <<x % lMaskPlus1, (x \div lMaskPlus1) % lMaskPlus1>>

Field3From(x) == split(x)

(***************************************************************************)
(* Results of a gadget call                                                *)
(***************************************************************************)
Fail == [ok |-> FALSE, val |-> <<>>]
Ok(v) == [ok |-> TRUE, val |-> v]

(***************************************************************************)
(* Range checks                                                            *)
(***************************************************************************)
\* multiRangeCheck: all three limbs in [0, 2^l)
multiRangeCheck(x) == x[1] < lMaskPlus1 /\ x[2] < lMaskPlus1 /\ x[3] < lMaskPlus1

\* the split of xy into x and y that the gadget witnesses: the low l bits of
\* xy and what is above them
splitCompactLimb(xy) == <<xy % lMaskPlus1, xy \div lMaskPlus1>>

\* mutant: the two halves of xy are returned in the wrong order
compactMultiRangeCheckSwapped(xy, z) ==
  IF /\ Fp(splitCompactLimb(xy)[1] + lMaskPlus1 * splitCompactLimb(xy)[2]) = xy
     /\ multiRangeCheck(<<splitCompactLimb(xy)[1], splitCompactLimb(xy)[2], z>>)
  THEN Ok(<<splitCompactLimb(xy)[2], splitCompactLimb(xy)[1], z>>)
  ELSE Fail

\* compactMultiRangeCheck(xy, z): splits up xy into x and y, proves that
\* xy = x + 2^l * y in the native field and that x, y, z are all in
\* [0, 2^l); the split form [x, y, z] is returned
compactMultiRangeCheck(xy, z) ==
  IF /\ Fp(splitCompactLimb(xy)[1] + lMaskPlus1 * splitCompactLimb(xy)[2]) = xy
     /\ multiRangeCheck(<<splitCompactLimb(xy)[1], splitCompactLimb(xy)[2], z>>)
  THEN Ok(<<splitCompactLimb(xy)[1], splitCompactLimb(xy)[2], z>>)
  ELSE Fail

(***************************************************************************)
(* Single-value range checks                                               *)
(***************************************************************************)
\* bit widths: 16 bits of the program are one step of the model; the widths
\* 32 and 64 are two and four steps
bits16 == l \div 2

bits32 == 2 * bits16

bits64 == 4 * bits16

\* rangeCheckN(n, x): n must be a positive multiple of 16; x, as its canonical
\* representative, must be below 2^n (constants are compared, variables are
\* constrained by their bit decomposition)
rangeCheckN(n, x) == n > 0 /\ n % bits16 = 0 /\ x < 2 ^ n

rangeCheck16(x) == x < 2 ^ bits16

rangeCheck32(x) == x < 2 ^ bits32

rangeCheck64(x) == x < 2 ^ bits64

\* GadgetsBn254.rangeCheckN
GadgetRangeCheckN(n, x) == rangeCheckN(n, x)

GadgetRangeCheck16(x) == rangeCheck16(x)

\* mutant: the 32-bit wrapper runs the 64-bit check
GadgetRangeCheck32As64(x) == rangeCheck64(x)

\* GadgetsBn254.rangeCheck32
GadgetRangeCheck32(x) == rangeCheck32(x)

\* GadgetsBn254.rangeCheck64
GadgetRangeCheck64(x) == rangeCheck64(x)

(***************************************************************************)
(* ffadd: one row of the addition chain                                    *)
(***************************************************************************)
\* mutant: the gate without the carry between the low limbs and the top limb
foreignFieldAddNoCarry(left, right, overflow, carry, modulus, sign, result) ==
  /\ Fp(combine2(left) + sign * combine2(right) - overflow * combine2(modulus))
       = Fp(combine2(result))
  /\ Fp(left[3] + sign * right[3] - overflow * modulus[3]) = result[3]
  /\ overflow \in {0, Fp(sign)}

\* the ForeignFieldAdd gate on (left, right, overflow, carry), with the
\* result in the next row:
\*   l01 + sign*r01 - overflow*f01 - carry*2^2l = res01
\*   l2  + sign*r2  - overflow*f2  + carry      = res2
\*   overflow is 0 or sign, carry is 0, 1 or -1      (all in the native field)
foreignFieldAdd(left, right, overflow, carry, modulus, sign, result) ==
  /\ Fp(combine2(left) + sign * combine2(right) - overflow * combine2(modulus)
        - carry * twoL) = Fp(combine2(result))
  /\ Fp(left[3] + sign * right[3] - overflow * modulus[3] + carry) = result[3]
  /\ overflow \in {0, Fp(sign)}
  /\ carry \in {0, 1, Fp(-1)}

\* the overflow of one addition: x is the bigint result before f is
\* added or subtracted
overflowOf(x, sign, m) ==
  IF m = 0 THEN 0
  ELSE IF sign = 1 /\ x >= m THEN 1
  ELSE IF sign = -1 /\ x < 0 THEN -1
  ELSE 0

\* the witnesses of one ffadd row, as bigints
witnessLow(x, y, sign, f_, overflow, r01) ==
  [r0 |-> split2(r01 % twoL)[1], r1 |-> split2(r01 % twoL)[2],
   r2 |-> x[3] + sign * y[3] - overflow * f_[3] + (r01 \div twoL),
   overflow |-> overflow, carry |-> r01 \div twoL]

witnessOverflow(x, y, sign, f_, overflow) ==
  witnessLow(x, y, sign, f_, overflow,
             combine2(x) + sign * combine2(y) - overflow * combine2(f_))

singleAddWitness(x, y, sign, m) ==
  witnessOverflow(x, y, sign, split(m),
                  overflowOf(combine(x) + sign * combine(y), sign, m))

\* the ffadd gate on the witnesses w taken into the native field
singleAddGate(x, y, sign, m, w) ==
  [result |-> <<Fp(w.r0), Fp(w.r1), Fp(w.r2)>>,
   overflow |-> Fp(w.overflow),
   gate |-> foreignFieldAdd(x, y, Fp(w.overflow), Fp(w.carry),
                            split(m), sign, <<Fp(w.r0), Fp(w.r1), Fp(w.r2)>>)]

\* singleAdd: witness the row, emit the gate; gate says whether it is satisfied
singleAdd(x, y, sign, m) ==
  singleAddGate(x, y, sign, m, singleAddWitness(x, y, sign, m))

\* one more row of a chain
addChainRow(acc, s) == [result |-> s.result, gates |-> acc.gates /\ s.gate]

\* the chain of ffadd rows over x[1] + sign[1]*x[2] + ...: the last result and
\* whether every gate of the chain is satisfied
RECURSIVE addChain(_, _, _, _, _)
addChain(acc, x, sign, m, i) ==
  IF i > Len(sign) THEN acc
  ELSE addChain(addChainRow(acc, singleAdd(acc.result, x[i + 1], sign[i], m)),
                x, sign, m, i + 1)

\* the signed sum of the inputs as one bigint
RECURSIVE bigSum(_, _, _)
bigSum(x, sign, i) ==
  IF i = 0 THEN combine(x[1])
  ELSE bigSum(x, sign, i - 1) + sign[i] * combine(x[i + 1])

\* sum(x, sign, f): constant case reduces the bigint sum modulo f; the
\* provable case chains ffadd rows and range-checks only the final result
sum(x, sign, m, isConst) ==
  IF isConst THEN Ok(Field3From(mod(bigSum(x, sign, Len(sign)), m)))
  ELSE LET c == addChain([result |-> x[1], gates |-> TRUE], x, sign, m, 1)
       IN IF c.gates /\ multiRangeCheck(c.result) THEN Ok(c.result) ELSE Fail

ForeignFieldAdd(x, y, m, isConst) == sum(<<x, y>>, <<1>>, m, isConst)

ForeignFieldSub(x, y, m, isConst) == sum(<<x, y>>, <<-1>>, m, isConst)

ForeignFieldNegate(x, m, isConst) == sum(<<Field3From(0), x>>, <<-1>>, m, isConst)

\* GadgetsBn254.ForeignFieldBn254 wrappers
GadgetAdd(x, y, m, isConst) == ForeignFieldAdd(x, y, m, isConst)

GadgetSub(x, y, m, isConst) == ForeignFieldSub(x, y, m, isConst)

\* mutant: the wrapper hands the inputs over without their signs
GadgetSumAllPlus(x, sign, m, isConst) ==
  sum(x, [i \in DOMAIN sign |-> 1], m, isConst)

GadgetSum(x, sign, m, isConst) == sum(x, sign, m, isConst)

(***************************************************************************)
(* ffmul                                                                   *)
(***************************************************************************)
\* the identity the multiplication constraints verify on the values of the
\* limb triples: x * y = q * f + r
mulIdentity(x, y, q, r, m) ==
  combine(x) * combine(y) = combine(q) * m + combine(r)

\* the witnesses of one multiplication: quotient and remainder of the bigint
\* product, each written as a limb triple
multiplyWitness(a, b, m) ==
  [q |-> Field3From((combine(a) * combine(b)) \div m),
   r |-> Field3From((combine(a) * combine(b)) % m)]

\* the constraints on the witnesses: the identity, and limbs in [0, 2^l) for
\* the quotient and for the remainder; the remainder is the result
multiplyChecked(a, b, m, w) ==
  IF mulIdentity(a, b, w.q, w.r, m) /\ multiRangeCheck(w.q) /\ multiRangeCheck(w.r)
  THEN Ok(w.r)
  ELSE Fail

\* multiply(a, b, f): plain arithmetic on constants, witnesses and
\* constraints otherwise
multiply(a, b, m, isConst) ==
  IF ~(m < 2 ^ mulModulusBits) THEN Fail
  ELSE IF isConst THEN Ok(Field3From(mod(combine(a) * combine(b), m)))
  ELSE multiplyChecked(a, b, m, multiplyWitness(a, b, m))

\* GadgetsBn254.ForeignFieldBn254.mul
GadgetMul(x, y, m, isConst) == multiply(x, y, m, isConst)

(***************************************************************************)
(* Bounds: almost reduced, less than                                       *)
(***************************************************************************)
\* mutant: the bound value without the + 1
weakBoundNoOffset(x2, m) == Fp(x2 + lMaskPlus1 - (m \div twoL))

\* weakBound(x2, f): the value x[2] + 2^l - (f[2] + 1), whose l-bit range
\* check proves x[2] < f[2] + 1
weakBound(x2, m) == Fp(x2 + lMaskPlus1 - ((m \div twoL) + 1))

\* the bounds of the elements, range-checked three at a time, the last batch
\* padded with zeros
RECURSIVE checkBounds(_)
checkBounds(bounds) ==
  IF Len(bounds) = 0 THEN TRUE
  ELSE IF Len(bounds) >= 3
       THEN multiRangeCheck(SubSeq(bounds, 1, 3))
              /\ checkBounds(SubSeq(bounds, 4, Len(bounds)))
  ELSE IF Len(bounds) = 1 THEN multiRangeCheck(<<bounds[1], 0, 0>>)
  ELSE multiRangeCheck(<<bounds[1], bounds[2], 0>>)

\* assertAlmostReduced(xs, f, skipMrc)
assertAlmostReduced(x, m, skipMrc) ==
  /\ \A i \in 1..Len(x) : skipMrc \/ multiRangeCheck(x[i])
  /\ checkBounds([i \in 1..Len(x) |-> weakBound(x[i][3], m)])

\* mutant: the wrapper skips the limb range checks whatever the option says
GadgetAssertAlmostReducedSkipMrc(x, m, skipMrc) == assertAlmostReduced(x, m, TRUE)

\* GadgetsBn254.ForeignFieldBn254.assertAlmostReduced(xs, f, { skipMrc })
GadgetAssertAlmostReduced(x, m, skipMrc) == assertAlmostReduced(x, m, skipMrc)

\* assertLessThan(x, f): constants are compared; on variables (f - 1) - x is
\* computed by ffadd and range-checked
assertLessThan(x, m, isConst) ==
  IF ~(m > 0) THEN FALSE
  ELSE IF isConst THEN combine(x) < m
  ELSE ForeignFieldNegate(x, m - 1, FALSE).ok

\* mutant: the wrapper proves x <= f
GadgetAssertLessThanOrEqual(x, m, isConst) == assertLessThan(x, m + 1, isConst)

\* GadgetsBn254.ForeignFieldBn254.assertLessThan
GadgetAssertLessThan(x, m, isConst) == assertLessThan(x, m, isConst)

(***************************************************************************)
(* Inputs                                                                  *)
(***************************************************************************)
Modes == {"constant", "variable"}

\* limb values the inputs are built from: the corners of [0, 2^l)
LimbVals == {0, 1, lMaskPlus1 - 2, lMaskPlus1 - 1}

\* range-checked limb triples
Field3s == {<<a, b, c>> : a \in LimbVals, b \in LimbVals, c \in LimbVals}

\* moduli for add / sub / sum: any size up to 3 limbs
Moduli == {combine(<<a, b, c>>) : a \in {1, lMaskPlus1 - 1}, b \in {0, lMaskPlus1 - 1},
                                  c \in {0, 1, lMaskPlus1 - 1}} \ {1}

isConstant == mode = "constant"

\* x is almost reduced modulo m: limbs in range, top limb at most m's top limb
almostReduced(x, m) == multiRangeCheck(x) /\ x[3] <= split(m)[3]

(***************************************************************************)
(* add and sub (SpecAdd)                                                   *)
(***************************************************************************)
InitAdd ==
  /\ op = "none"
  /\ mode \in Modes
  /\ f \in Moduli
  /\ xs \in {<<x, y>> : x \in Field3s, y \in Field3s}
  /\ signs = <<>>
  /\ args = <<>>
  /\ ok = FALSE
  /\ out = <<>>
  /\ NoUnconstrained

Add ==
  /\ op = "none"
  /\ Len(xs) = 2
  /\ LET r == GadgetAdd(xs[1], xs[2], f, isConstant)
     IN ok' = r.ok /\ out' = r.val
  /\ op' = "add"
  /\ UNCHANGED <<mode, f, xs, signs, args>>
  /\ UNCHANGED <<runMode, inProverBlock, heap, option>>

Sub ==
  /\ op = "none"
  /\ Len(xs) = 2
  /\ LET r == GadgetSub(xs[1], xs[2], f, isConstant)
     IN ok' = r.ok /\ out' = r.val
  /\ op' = "sub"
  /\ UNCHANGED <<mode, f, xs, signs, args>>
  /\ UNCHANGED <<runMode, inProverBlock, heap, option>>

NextAdd == Add \/ Sub

SpecAdd == InitAdd /\ [][NextAdd]_vars

(***************************************************************************)
(* Claims on add and sub                                                   *)
(***************************************************************************)
X == combine(xs[1])
Y == combine(xs[2])
Out == combine(out)
mulModulus == f < 2 ^ mulModulusBits
inputsAlmostReduced == almostReduced(xs[1], f) /\ almostReduced(xs[2], f)

\* C1 as stated: for f below the ffmul bound and almost-reduced x, y, add
\* succeeds, its limbs are in range and the result is x + y - overflow*f with
\* overflow 0 or 1
C1_AddOverflowBit ==
  (op = "add" /\ mulModulus /\ inputsAlmostReduced)
    => /\ ok
       /\ multiRangeCheck(out)
       /\ (Out - (X + Y)) % f = 0
       /\ Out \in {X + Y, X + Y - f}

\* C1 amended: add succeeds with limbs in range and a result congruent to
\* x + y modulo f; the result is x + y - overflow*f with overflow 0 or 1 when
\* an operand is a variable, and the reduced (x + y) mod f when all are constant
C1_Add ==
  (op = "add" /\ mulModulus /\ inputsAlmostReduced)
    => /\ ok
       /\ multiRangeCheck(out)
       /\ (Out - (X + Y)) % f = 0
       /\ mode = "variable" => Out \in {X + Y, X + Y - f}
       /\ mode = "constant" => Out = (X + Y) % f

\* C1 witness: 9 + 10 = 2 modulo 17 on variables, with one overflow
C1_Witness ==
  /\ op = "add" /\ mode = "variable" /\ f = 17
  /\ X = 9 /\ Y = 10 /\ inputsAlmostReduced
  /\ ok /\ Out = 2

SumField3s ==
  {<<a, b, 0>> : a \in {0, 1, lMaskPlus1 - 2}, b \in {0, 1, lMaskPlus1 - 2}}
    \cup {<<0, 0, lMaskPlus1 - 1>>, <<lMaskPlus1 - 2, lMaskPlus1 - 2, lMaskPlus1 - 1>>}

SumModuli == {combine(<<1, 0, 1>>), combine(<<lMaskPlus1 - 1, lMaskPlus1 - 1, 0>>),
              combine(<<lMaskPlus1 - 1, lMaskPlus1 - 1, lMaskPlus1 - 1>>)}

\* sequences of length n over S
SeqsOfLen(S, n) == [1..n -> S]

InitSum ==
  /\ op = "none"
  /\ mode \in Modes
  /\ f \in SumModuli
  /\ \E n \in 1..MaxSigns :
       /\ xs \in SeqsOfLen(SumField3s, n + 1)
       /\ signs \in SeqsOfLen(Signs, n)
  /\ args = <<>>
  /\ ok = FALSE
  /\ out = <<>>
  /\ NoUnconstrained

SumOp ==
  /\ op = "none"
  /\ Len(xs) = Len(signs) + 1
  /\ LET r == GadgetSum(xs, signs, f, isConstant)
     IN ok' = r.ok /\ out' = r.val
  /\ op' = "sum"
  /\ UNCHANGED <<mode, f, xs, signs, args>>
  /\ UNCHANGED <<runMode, inProverBlock, heap, option>>

NextSum == SumOp

SpecSum == InitSum /\ [][NextSum]_vars

\* the same chain as a fold of pairwise add / sub calls, each range-checking
\* its own result
RECURSIVE foldAddSub(_, _, _, _, _)
foldAddSub(x, sign, m, isConst, i) ==
  IF i = 0 THEN Ok(x[1])
  ELSE LET acc == foldAddSub(x, sign, m, isConst, i - 1)
       IN IF ~acc.ok THEN Fail
          ELSE IF sign[i] = 1 THEN GadgetAdd(acc.val, x[i + 1], m, isConst)
          ELSE GadgetSub(acc.val, x[i + 1], m, isConst)

Fold == foldAddSub(xs, signs, f, isConstant, Len(signs))

InitMul ==
  /\ op = "none"
  /\ mode \in Modes
  /\ f \in Moduli
  /\ f < 2 ^ mulModulusBits \/ f = twoL3 - 1
  /\ xs \in {<<x, y>> : x \in Field3s, y \in Field3s}
  /\ signs = <<>>
  /\ args = <<>>
  /\ ok = FALSE
  /\ out = <<>>
  /\ NoUnconstrained

Mul ==
  /\ op = "none"
  /\ Len(xs) = 2
  /\ LET r == GadgetMul(xs[1], xs[2], f, isConstant)
     IN ok' = r.ok /\ out' = r.val
  /\ op' = "mul"
  /\ UNCHANGED <<mode, f, xs, signs, args>>
  /\ UNCHANGED <<runMode, inProverBlock, heap, option>>

NextMul == Mul

SpecMul == InitMul /\ [][NextMul]_vars

(***************************************************************************)
(* Claims on mul                                                           *)
(***************************************************************************)
modulus2 == f \div twoL

AlmostInputs ==
  {<<0, 0, c>> : c \in {0, 1, lMaskPlus1 - 1, lMaskPlus1, p - 1}}
    \cup {<<lMaskPlus1, 0, 0>>, <<0, p - 1, 1>>,
          <<lMaskPlus1 - 1, lMaskPlus1 - 1, 0>>, <<0, lMaskPlus1 - 1, 0>>}

AlmostModuli == {m \in Moduli : m % lMaskPlus1 = lMask}

InitAlmost ==
  /\ op = "none"
  /\ mode \in Modes
  /\ f \in AlmostModuli
  /\ \E n \in 1..MaxElems : xs \in SeqsOfLen(AlmostInputs, n)
  /\ signs = <<>>
  /\ args \in {<<skipMrc>> : skipMrc \in BOOLEAN}
  /\ ok = FALSE
  /\ out = <<>>
  /\ NoUnconstrained

\* assertAlmostReduced(xs, f, { skipMrc }); skipMrc is false by default
AssertAlmostReduced ==
  /\ op = "none"
  /\ ok' = GadgetAssertAlmostReduced(xs, f, args[1])
  /\ op' = "assertAlmostReduced"
  /\ UNCHANGED <<mode, f, xs, signs, args, out>>
  /\ UNCHANGED <<runMode, inProverBlock, heap, option>>

\* the multiplication mul(x, x, f) that follows a successful assertion on x
MulAfterAlmostReduced ==
  /\ op = "assertAlmostReduced"
  /\ ok
  /\ LET r == GadgetMul(xs[1], xs[1], f, isConstant)
     IN ok' = r.ok /\ out' = r.val
  /\ op' = "mulAfterAlmostReduced"
  /\ UNCHANGED <<mode, f, xs, signs, args>>
  /\ UNCHANGED <<runMode, inProverBlock, heap, option>>

NextAlmost == AssertAlmostReduced \/ MulAfterAlmostReduced

SpecAlmost == InitAlmost /\ [][NextAlmost]_vars

(***************************************************************************)
(* Claims on assertAlmostReduced and the mul that follows it               *)
(***************************************************************************)
\* the elements of the list all have their limbs in [0, 2^l)
limbsInRange == \A i \in 1..Len(xs) : \A j \in 1..3 : xs[i][j] \in 0..lMask

InitLess ==
  /\ op = "none"
  /\ mode \in Modes
  /\ f \in {combine(t) : t \in Field3s} \ {0}
  /\ xs \in {<<x>> : x \in Field3s}
  /\ signs = <<>>
  /\ args = <<>>
  /\ ok = FALSE
  /\ out = <<>>
  /\ NoUnconstrained

AssertLessThan ==
  /\ op = "none"
  /\ ok' = GadgetAssertLessThan(xs[1], f, isConstant)
  /\ op' = "assertLessThan"
  /\ UNCHANGED <<mode, f, xs, signs, args, out>>
  /\ UNCHANGED <<runMode, inProverBlock, heap, option>>

NextLess == AssertLessThan

SpecLess == InitLess /\ [][NextLess]_vars

(***************************************************************************)
(* Claims on assertLessThan                                                *)
(***************************************************************************)
\* C9: for x with limbs in range, assertLessThan(x, f) succeeds if and only
\* if x < f; it fails for x = f and for every x > f
C9_AssertLessThan ==
  (op = "assertLessThan" /\ multiRangeCheck(xs[1])) => (ok <=> X < f)

\* C9 witness: a variable that is almost reduced but above f is rejected
C9_Witness ==
  /\ op = "assertLessThan" /\ mode = "variable" /\ f >= twoL
  /\ almostReduced(xs[1], f) /\ X > f /\ ~ok

(***************************************************************************)
(* Single-value range checks (SpecRange)                                   *)
(***************************************************************************)
RangeWidths == {k * bits16 : k \in 1..5}

InitRange ==
  /\ op = "none"
  /\ mode \in Modes
  /\ f = 0
  /\ xs \in {<<x>> : x \in 0..(p - 1)}
  /\ signs = <<>>
  /\ args \in {<<n>> : n \in RangeWidths}
  /\ ok = FALSE
  /\ out = <<>>
  /\ NoUnconstrained

RangeCheck16 ==
  /\ op = "none"
  /\ ok' = GadgetRangeCheck16(xs[1])
  /\ op' = "rangeCheck16"
  /\ UNCHANGED <<mode, f, xs, signs, args, out>>
  /\ UNCHANGED <<runMode, inProverBlock, heap, option>>

RangeCheck32 ==
  /\ op = "none"
  /\ ok' = GadgetRangeCheck32(xs[1])
  /\ op' = "rangeCheck32"
  /\ UNCHANGED <<mode, f, xs, signs, args, out>>
  /\ UNCHANGED <<runMode, inProverBlock, heap, option>>

RangeCheck64 ==
  /\ op = "none"
  /\ ok' = GadgetRangeCheck64(xs[1])
  /\ op' = "rangeCheck64"
  /\ UNCHANGED <<mode, f, xs, signs, args, out>>
  /\ UNCHANGED <<runMode, inProverBlock, heap, option>>

RangeCheckN ==
  /\ op = "none"
  /\ ok' = GadgetRangeCheckN(args[1], xs[1])
  /\ op' = "rangeCheckN"
  /\ UNCHANGED <<mode, f, xs, signs, args, out>>
  /\ UNCHANGED <<runMode, inProverBlock, heap, option>>

\* rangeCheck32(x.add(1n << 31n)): the signed 32-bit range
RangeCheck32Shifted ==
  /\ op = "none"
  /\ ok' = GadgetRangeCheck32(Fp(xs[1] + 2 ^ (bits32 - 1)))
  /\ op' = "rangeCheck32Shifted"
  /\ UNCHANGED <<mode, f, xs, signs, args, out>>
  /\ UNCHANGED <<runMode, inProverBlock, heap, option>>

\* rangeCheck64(x.add(1n << 63n)): the signed 64-bit range
RangeCheck64Shifted ==
  /\ op = "none"
  /\ ok' = GadgetRangeCheck64(Fp(xs[1] + 2 ^ (bits64 - 1)))
  /\ op' = "rangeCheck64Shifted"
  /\ UNCHANGED <<mode, f, xs, signs, args, out>>
  /\ UNCHANGED <<runMode, inProverBlock, heap, option>>

NextRange ==
  \/ RangeCheck16 \/ RangeCheck32 \/ RangeCheck64 \/ RangeCheckN
  \/ RangeCheck32Shifted \/ RangeCheck64Shifted

SpecRange == InitRange /\ [][NextRange]_vars

(***************************************************************************)
(* Claims on the single-value range checks                                 *)
(***************************************************************************)
\* the signed value of a field element
signed(x) == IF 2 * x > p THEN x - p ELSE x

\* C14: p - k for 1 <= k <= 2^63 never passes rangeCheck64, and rangeCheck64
\* of x + 2^63 succeeds exactly when the signed value of x is in
\* [-2^63, 2^63); the same for rangeCheck32 and 2^31
C14_SignedRange ==
  /\ (op = "rangeCheck64" /\ xs[1] >= p - 2 ^ (bits64 - 1)) => ~ok
  /\ op = "rangeCheck64Shifted"
       => (ok <=> /\ signed(xs[1]) >= -(2 ^ (bits64 - 1))
                  /\ signed(xs[1]) < 2 ^ (bits64 - 1))
  /\ op = "rangeCheck32Shifted"
       => (ok <=> /\ signed(xs[1]) >= -(2 ^ (bits32 - 1))
                  /\ signed(xs[1]) < 2 ^ (bits32 - 1))

\* C14 witness: the most negative value of the signed 64-bit range passes the
\* shifted check
C14_Witness ==
  /\ op = "rangeCheck64Shifted" /\ xs[1] = p - 2 ^ (bits64 - 1) /\ ok

(***************************************************************************)
(* compactMultiRangeCheck (SpecMulti)                                      *)
(***************************************************************************)
\* field elements around the limb bounds 2^l and 2^2l, and the native -1
RcVals ==
  {0, 1, lMask, lMaskPlus1, lMaskPlus1 + 1, twoL - 1, twoL, p - 1}

InitMulti ==
  /\ op = "none"
  /\ mode \in Modes
  /\ f = 0
  /\ xs \in {<<xy, z>> : xy \in RcVals, z \in RcVals}
  /\ signs = <<>>
  /\ args = <<>>
  /\ ok = FALSE
  /\ out = <<>>
  /\ NoUnconstrained

\* compactMultiRangeCheck(xy, z)
CompactMultiRangeCheck ==
  /\ op = "none"
  /\ Len(xs) = 2
  /\ LET r == compactMultiRangeCheck(xs[1], xs[2])
     IN ok' = r.ok /\ out' = r.val
  /\ op' = "compactMultiRangeCheck"
  /\ UNCHANGED <<mode, f, xs, signs, args>>
  /\ UNCHANGED <<runMode, inProverBlock, heap, option>>

NextMulti == CompactMultiRangeCheck

SpecMulti == InitMulti /\ [][NextMulti]_vars

wordBase == 2 ^ bits32

\* n >> 32
shiftRight32(n) == n \div wordBase

\* nBigInt - (q << 32n)
lowWord(n, q) == n - q * wordBase

\* constant input: the 64-bit assertion, then quotient and remainder as bigints
divMod32Constant(n) ==
  IF n < 2 ^ bits64 THEN Ok(<<shiftRight32(n), lowWord(n, shiftRight32(n))>>) ELSE Fail

\* the check on the quotient: a boolean for one bit, else rangeCheckN
quotientCheck(quotientBits, quotient) ==
  IF quotientBits = 1 THEN quotient \in {0, 1} ELSE rangeCheckN(quotientBits, quotient)

\* the constraints on the witnessed pair:
\* n.assertEquals(quotient.mul(1n << 32n).add(remainder)) is an equation in Fp
divMod32Constraints(n, quotientBits, quotient, remainder) ==
  /\ quotientCheck(quotientBits, quotient)
  /\ rangeCheck32(remainder)
  /\ n = Fp(Fp(quotient * wordBase) + remainder)

divMod32Witnessed(n, quotientBits, quotient, remainder) ==
  IF divMod32Constraints(n, quotientBits, quotient, remainder)
  THEN Ok(<<quotient, remainder>>)
  ELSE Fail

\* divMod32(n, quotientBits); the result is <<quotient, remainder>>
divMod32(n, quotientBits, isConst) ==
  IF isConst
  THEN divMod32Constant(n)
  ELSE divMod32Witnessed(n, quotientBits, shiftRight32(n), lowWord(n, shiftRight32(n)))

\* the remainder field of a divMod32 result
remainderOf(r) == IF r.ok THEN Ok(<<r.val[2]>>) ELSE Fail

\* addMod32(x, y) == divMod32(x.add(y), 1).remainder
addMod32(x, y, isConst) == remainderOf(divMod32(Fp(x + y), 1, isConst))

\* mutant: quotient and remainder change places
GadgetDivMod32Swapped(n, isConst) ==
  IF divMod32(n, bits32, isConst).ok
  THEN Ok(<<divMod32(n, bits32, isConst).val[2], divMod32(n, bits32, isConst).val[1]>>)
  ELSE Fail

\* mutant: no check that the input fits into 64 bits
GadgetDivMod32Unchecked(n, isConst) == Ok(<<shiftRight32(n), lowWord(n, shiftRight32(n))>>)

\* Gadgets.divMod32(n), quotientBits = 32 by default
GadgetDivMod32(n, isConst) == divMod32(n, bits32, isConst)

\* Gadgets.addMod32(x, y)
GadgetAddMod32(x, y, isConst) == addMod32(x, y, isConst)

\* summands of addMod32: the range [0, 2^64] named by the doc comment
AddMod32Vals == 0..(2 ^ bits64)

InitDivMod ==
  /\ op = "none"
  /\ mode \in Modes
  /\ f = 0
  /\ xs \in {<<n>> : n \in 0..(p - 1)}
              \cup {<<x, y>> : x \in AddMod32Vals, y \in AddMod32Vals}
  /\ signs = <<>>
  /\ args = <<>>
  /\ ok = FALSE
  /\ out = <<>>
  /\ NoUnconstrained

DivMod32 ==
  /\ op = "none"
  /\ Len(xs) = 1
  /\ LET r == GadgetDivMod32(xs[1], isConstant)
     IN ok' = r.ok /\ out' = r.val
  /\ op' = "divMod32"
  /\ UNCHANGED <<mode, f, xs, signs, args>>
  /\ UNCHANGED <<runMode, inProverBlock, heap, option>>

AddMod32 ==
  /\ op = "none"
  /\ Len(xs) = 2
  /\ LET r == GadgetAddMod32(xs[1], xs[2], isConstant)
     IN ok' = r.ok /\ out' = r.val
  /\ op' = "addMod32"
  /\ UNCHANGED <<mode, f, xs, signs, args>>
  /\ UNCHANGED <<runMode, inProverBlock, heap, option>>

\* widths passed as quotientBits: one bit, as addMod32 does, up to more than a word
QuotientWidths == 1..(bits32 + 1)

\* divMod32(n, quotientBits) with an explicit quotient width
DivMod32Bits ==
  /\ op = "none"
  /\ Len(xs) = 1
  /\ \E quotientBits \in QuotientWidths :
       /\ LET r == divMod32(xs[1], quotientBits, isConstant)
          IN ok' = r.ok /\ out' = r.val
       /\ args' = <<quotientBits>>
  /\ op' = "divMod32Bits"
  /\ UNCHANGED <<mode, f, xs, signs>>
  /\ UNCHANGED <<runMode, inProverBlock, heap, option>>

NextDivMod == DivMod32 \/ AddMod32 \/ DivMod32Bits

SpecDivMod == InitDivMod /\ [][NextDivMod]_vars

(***************************************************************************)
(* Claims on divMod32 and addMod32                                         *)
(***************************************************************************)
\* C15: for every n in [0, 2^64), on a constant and on a variable, divMod32(n)
\* returns quotient = n >> 32 and remainder = n - (quotient << 32), so that
\* quotient * 2^32 + remainder = n and both are in [0, 2^32)
C15_DivMod32 ==
  (op = "divMod32" /\ xs[1] < 2 ^ bits64)
    => /\ ok
       /\ out = <<xs[1] \div wordBase, xs[1] % wordBase>>
       /\ out[1] * wordBase + out[2] = xs[1]
       /\ out[1] \in 0..(wordBase - 1)
       /\ out[2] \in 0..(wordBase - 1)

\* C15 witness: n = 2^32 + 3 on a variable gives quotient 1, remainder 3
C15_Witness ==
  /\ op = "divMod32" /\ mode = "variable" /\ ok
  /\ xs[1] = wordBase + 3 /\ out = <<1, 3>>

\* C16: for every field element n >= 2^64 divMod32(n) fails, on a constant and
\* on a variable, and returns no quotient and remainder
C16_DivMod32Range ==
  (op = "divMod32" /\ xs[1] >= 2 ^ bits64) => (~ok /\ out = <<>>)

\* C16 witness: the smallest rejected value, 2^64, on a variable
C16_Witness ==
  /\ op = "divMod32" /\ mode = "variable" /\ ~ok
  /\ xs[1] = 2 ^ bits64

\* C17 as stated: for all x, y in [0, 2^64) addMod32 succeeds and returns
\* (x + y) mod 2^32, a value in [0, 2^32)
C17_AddMod32 ==
  (op = "addMod32" /\ xs[1] < 2 ^ bits64 /\ xs[2] < 2 ^ bits64)
    => /\ ok
       /\ out = <<(xs[1] + xs[2]) % wordBase>>
       /\ out[1] \in 0..(wordBase - 1)

\* what addMod32 does: on variables the quotient is checked to be one bit, so
\* the sum has to be below 2^33; on constants it has to be below 2^64; where it
\* succeeds the result is the sum modulo 2^32
AddMod32Actual ==
  op = "addMod32"
    => /\ ok <=> Fp(xs[1] + xs[2]) < (IF isConstant THEN 2 ^ bits64 ELSE 2 * wordBase)
       /\ ok => out = <<Fp(xs[1] + xs[2]) % wordBase>>

(***************************************************************************)
(* bit-slices-bn254.ts: bytes and words (SpecBytes)                        *)
(***************************************************************************)
\* bits of one byte (8 in the source, scaled down with the field)
byteBits == 2

\* longest byte sequence; 2^(byteBits * MaxBytes) exceeds the native modulus
MaxBytes == 3

\* UInt8: the values of one byte
UInt8 == 0..(2 ^ byteBits - 1)

\* const shift = 1n << BigInt(8 * idx)
byteShift(idx) == 2 ^ (byteBits * idx)

\* the reduce of bytesToWord over the first n bytes: acc.add(byte.value.mul(shift))
RECURSIVE bytesToWordReduce(_, _)
bytesToWordReduce(wordBytes, n) ==
  IF n = 0
  THEN 0
  ELSE Fp(bytesToWordReduce(wordBytes, n - 1) + Fp(wordBytes[n] * Fp(byteShift(n - 1))))

\* bytesToWord(wordBytes): little endian weighted sum in the native field
bytesToWord(wordBytes) == bytesToWordReduce(wordBytes, Len(wordBytes))

\* the witness of wordToBytes: (w >> BigInt(8 * k)) & 0xffn for k < bytesPerWord
witnessBytes(w, bytesPerWord) ==
  [k \in 1..bytesPerWord |-> (w \div byteShift(k - 1)) % (2 ^ byteBits)]

\* mutant: the witnessed bytes are most significant first
witnessBytesBigEndian(w, bytesPerWord) ==
  [k \in 1..bytesPerWord |-> (w \div byteShift(bytesPerWord - k)) % (2 ^ byteBits)]

\* bytesToWord(bytes).assertEquals(word); return bytes
checkDecomposition(bytes, word) == IF bytesToWord(bytes) = word THEN Ok(bytes) ELSE Fail

\* mutant of wordToBytes
wordToBytesBigEndian(word, bytesPerWord) ==
  checkDecomposition(witnessBytesBigEndian(word, bytesPerWord), word)

\* mutant of wordToBytes: the witnessed bytes are returned without the check
wordToBytesUnchecked(word, bytesPerWord) == Ok(witnessBytes(word, bytesPerWord))

\* the byte arrays of the given length that pass the check of wordToBytes when
\* a prover supplies them as the witness: every byte is a UInt8 and
\* bytesToWord(bytes) = word holds in the field
acceptedBytes(word, bytesPerWord) ==
  {bytes \in [1..bytesPerWord -> UInt8] : checkDecomposition(bytes, word).ok}

\* wordToBytes(word, bytesPerWord)
wordToBytes(word, bytesPerWord) ==
  checkDecomposition(witnessBytes(word, bytesPerWord), word)

\* byte sequences of length 0..MaxBytes
ByteSeqs == UNION {[1..k -> UInt8] : k \in 0..MaxBytes}

InitBytes ==
  /\ op = "none"
  /\ mode \in Modes
  /\ f = 0
  /\ xs \in ByteSeqs
  /\ signs = <<>>
  /\ args = <<>>
  /\ ok = FALSE
  /\ out = <<>>
  /\ NoUnconstrained

\* word = bytesToWord(B); the word is kept in args
BytesToWord ==
  /\ op = "none"
  /\ args' = <<bytesToWord(xs)>>
  /\ op' = "bytesToWord"
  /\ UNCHANGED <<mode, f, xs, signs, ok, out>>
  /\ UNCHANGED <<runMode, inProverBlock, heap, option>>

\* wordToBytes(word, bytesPerWord) on the word computed before
WordToBytes ==
  /\ op = "bytesToWord"
  /\ \E bytesPerWord \in 0..MaxBytes :
       /\ LET r == wordToBytes(args[1], bytesPerWord)
          IN ok' = r.ok /\ out' = r.val
       /\ args' = <<args[1], bytesPerWord>>
  /\ op' = "wordToBytes"
  /\ UNCHANGED <<mode, f, xs, signs>>
  /\ UNCHANGED <<runMode, inProverBlock, heap, option>>

NextBytes == BytesToWord \/ WordToBytes

SpecBytes == InitBytes /\ [][NextBytes]_vars

(***************************************************************************)
(* Claims on the byte/word conversion                                      *)
(***************************************************************************)
\* the integer sum of B[i] * 2^(8i) over the first n bytes, not reduced
RECURSIVE littleEndian(_, _)
littleEndian(B, n) ==
  IF n = 0 THEN 0 ELSE littleEndian(B, n - 1) + B[n] * byteShift(n - 1)

\* the round trip wordToBytes(bytesToWord(B), k) with k the length of B
roundTrip == op = "wordToBytes" /\ args[2] = Len(xs)

\* C18 as stated: for every length k and every sequence B of k bytes the round
\* trip succeeds and returns exactly B
C18_RoundTripAll ==
  roundTrip => (ok /\ out = xs)

\* C18 amended: the word is the little endian sum reduced modulo the native
\* modulus; the round trip succeeds and returns the k low bytes of that word,
\* which is B exactly when the sum of B[i] * 2^(8i) is below the native modulus
C18_RoundTrip ==
  roundTrip
    => /\ args[1] = littleEndian(xs, Len(xs)) % p
       /\ ok
       /\ Len(out) = Len(xs)
       /\ littleEndian(out, Len(out)) = args[1]
       /\ out = xs <=> littleEndian(xs, Len(xs)) < p

\* C18 witness: a sequence of full length with a non-zero top byte whose sum
\* is below the modulus comes back unchanged
C18_Witness ==
  /\ roundTrip /\ ok /\ out = xs
  /\ Len(xs) = MaxBytes /\ xs[MaxBytes] > 0 /\ xs[1] > 0

(***************************************************************************)
(* bit-slices-bn254.ts: sliceField3 and sliceField (SpecSlice)             *)
(***************************************************************************)
\* Math.min
mathMin(a, b) == IF a < b THEN a ELSE b

\* bits[i] of the witness: bit i of x for i < maxBits (truncated or padded)
bitAt(x, i) == (x \div 2 ^ i) % 2

\* the inner loop: the sum of bits[i + j] * 2^j for j < size, in the field
RECURSIVE bitSum(_, _, _)
bitSum(x, i, size) ==
  IF size = 0
  THEN 0
  ELSE Fp(bitSum(x, i, size - 1) + Fp(bitAt(x, i + size - 1) * Fp(2 ^ (size - 1))))

\* the chunk at bit i: size = Math.min(maxBits - i, chunkSize) bits
chunkAt(x, maxBits, chunkSize, i) == bitSum(x, i, mathMin(maxBits - i, chunkSize))

\* for (; i < maxBits; i += chunkSize): sum = sum.add(chunk.mul(1n << BigInt(i))),
\* chunks.push(chunk)
RECURSIVE sliceLoop(_, _, _, _, _, _)
sliceLoop(x, maxBits, chunkSize, i, acc, chunks) ==
  IF i >= maxBits
  THEN [i |-> i, sum |-> acc, chunks |-> chunks]
  ELSE sliceLoop(x, maxBits, chunkSize, i + chunkSize,
                 Fp(acc + Fp(chunkAt(x, maxBits, chunkSize, i) * Fp(2 ^ i))),
                 Append(chunks, chunkAt(x, maxBits, chunkSize, i)))

\* a sliceField call that throws or whose constraints are violated
SliceFail == [ok |-> FALSE, chunks |-> <<>>, leftoverSize |-> 0, previous |-> <<>>]

\* sum.assertEquals(x); leftoverSize = i - maxBits; previous are the chunks of
\* the earlier call, whose last entry was completed in place
sliceFinish(x, maxBits, loop, previous) ==
  IF loop.sum = x
  THEN [ok |-> TRUE, chunks |-> loop.chunks, leftoverSize |-> loop.i - maxBits,
        previous |-> previous]
  ELSE SliceFail

\* previous[previous.length - 1] = chunk.add(remainingChunk.mul(1n << BigInt(chunkSize - size)))
completeChunk(previous, remainingChunk, chunkSize, size) ==
  [previous EXCEPT ![Len(previous)] =
     Fp(@ + Fp(remainingChunk * Fp(2 ^ (chunkSize - size))))]

\* sliceField(x, maxBits, chunkSize) without a leftover
sliceField(x, maxBits, chunkSize) ==
  sliceFinish(x, maxBits, sliceLoop(x, maxBits, chunkSize, 0, 0, <<>>), <<>>)

\* sliceField(x, maxBits, chunkSize, leftover): reading bits[i] for
\* i >= maxBits gives undefined, and so does previous[-1] of an empty array;
\* using either throws
sliceFieldLeftover(x, maxBits, chunkSize, previous, size) ==
  IF size > maxBits \/ Len(previous) = 0
  THEN SliceFail
  ELSE sliceFinish(x, maxBits,
                   sliceLoop(x, maxBits, chunkSize, size, bitSum(x, 0, size), <<>>),
                   completeChunk(previous, bitSum(x, 0, size), chunkSize, size))

\* third limb: result2 = sliceField(x2, maxBits, chunkSize, result1)
sliceField3Third(x2, maxBits, chunkSize, chunks0, result2) ==
  IF result2.ok THEN Ok(chunks0 \o result2.previous \o result2.chunks) ELSE Fail

\* after the second limb: return, or go on with maxBits -= l
sliceField3Second(x, maxBits, chunkSize, result1) ==
  IF ~result1.ok
  THEN Fail
  ELSE IF maxBits <= l
       THEN Ok(result1.previous \o result1.chunks)
       ELSE sliceField3Third(x[3], maxBits - l, chunkSize, result1.previous,
              sliceFieldLeftover(x[3], maxBits - l, chunkSize,
                                 result1.chunks, result1.leftoverSize))

\* after the first limb: return, or go on with maxBits -= l
sliceField3First(x, maxBits, chunkSize, result0) ==
  IF ~result0.ok
  THEN Fail
  ELSE IF maxBits <= l
       THEN Ok(result0.chunks)
       ELSE sliceField3Second(x, maxBits - l, chunkSize,
              sliceFieldLeftover(x[2], mathMin(l, maxBits - l), chunkSize,
                                 result0.chunks, result0.leftoverSize))

\* sliceField3([x0, x1, x2], { maxBits, chunkSize })
sliceField3(x, maxBits, chunkSize) ==
  IF maxBits > 3 * l
  THEN Fail
  ELSE sliceField3First(x, maxBits, chunkSize,
                        sliceField(x[1], mathMin(l, maxBits), chunkSize))

\* maxBits, up to one more than the 3l the assertion admits
SliceMaxBits == 0..(3 * l + 1)

\* chunkSize, from one bit to more than the whole value
SliceChunkSizes == 1..(3 * l + 1)

InitSlice ==
  /\ op = "none"
  /\ mode \in Modes
  /\ f = 0
  /\ xs \in {<<x>> : x \in Field3s}
  /\ signs = <<>>
  /\ args \in {<<maxBits, chunkSize>> : maxBits \in SliceMaxBits, chunkSize \in SliceChunkSizes}
  /\ ok = FALSE
  /\ out = <<>>
  /\ NoUnconstrained

SliceField3 ==
  /\ op = "none"
  /\ LET r == sliceField3(xs[1], args[1], args[2])
     IN ok' = r.ok /\ out' = r.val
  /\ op' = "sliceField3"
  /\ UNCHANGED <<mode, f, xs, signs, args>>
  /\ UNCHANGED <<runMode, inProverBlock, heap, option>>

NextSlice == SliceField3

SpecSlice == InitSlice /\ [][NextSlice]_vars

(***************************************************************************)
(* Claims on sliceField3                                                   *)
(***************************************************************************)
\* x0 + 2^l * x1 + 2^2l * x2
value3(x) == x[1] + lMaskPlus1 * x[2] + twoL * x[3]

\* the sum of c_i * 2^(chunkSize * i) over the first n chunks
RECURSIVE chunkValue(_, _, _)
chunkValue(chunks, chunkSize, n) ==
  IF n = 0
  THEN 0
  ELSE chunkValue(chunks, chunkSize, n - 1) + chunks[n] * 2 ^ (chunkSize * (n - 1))

\* the chunks are in [0, 2^chunkSize) and their weighted sum is the value
decomposes ==
  /\ \A i \in 1..Len(out) : out[i] \in 0..(2 ^ args[2] - 1)
  /\ chunkValue(out, args[2], Len(out)) = value3(xs[1])

\* C19 as stated: for every maxBits <= 3l, every chunkSize and every Field3
\* with value below 2^maxBits, sliceField3 returns chunks in [0, 2^chunkSize)
\* whose weighted sum is the value
C19_SliceField3 ==
  (op = "sliceField3" /\ args[1] <= 3 * l /\ value3(xs[1]) < 2 ^ args[1])
    => (ok /\ decomposes)

\* what holds: whenever sliceField3 succeeds on a value below 2^maxBits, the
\* chunks decompose the value
SliceField3Decomposes ==
  (op = "sliceField3" /\ ok /\ value3(xs[1]) < 2 ^ args[1]) => decomposes

\* C20 as stated: for every Field3 whose value is 2^maxBits or more,
\* sliceField3 fails
C20_SliceField3Range ==
  (op = "sliceField3" /\ value3(xs[1]) >= 2 ^ args[1]) => ~ok

\* ceil(a / b)
ceilDiv(a, b) == (a + b - 1) \div b

\* C21 as stated: for every maxBits in 1..3l, every chunkSize >= 1 and every
\* input below 2^maxBits, sliceField3 completes and returns exactly
\* ceil(maxBits / chunkSize) chunks; for maxBits > 3l it fails
C21_SliceField3Total ==
  op = "sliceField3"
    => /\ (args[1] \in 1..(3 * l) /\ value3(xs[1]) < 2 ^ args[1])
            => (ok /\ Len(out) = ceilDiv(args[1], args[2]))
       /\ args[1] > 3 * l => ~ok

\* what holds: a successful call returns ceil(maxBits / chunkSize) chunks, and
\* maxBits > 3l is rejected
SliceField3ChunkCount ==
  op = "sliceField3"
    => /\ (ok /\ value3(xs[1]) < 2 ^ args[1]) => Len(out) = ceilDiv(args[1], args[2])
       /\ args[1] > 3 * l => ~ok

(***************************************************************************)
(* elliptic-curve.ts: ForeignGroup.assertEquals (SpecGroup)                *)
(***************************************************************************)
\* #foreignFieldtoFieldsBn254(x): the three limbs of a foreign field element
foreignFieldtoFieldsBn254(x) == <<x[1], x[2], x[3]>>

\* the loop of #assertEqualBn254 over the limbs: thisXs[i].assertEquals(otherXs[i])
limbsAssertEqual(thisXs, otherXs) ==
  \A i \in 1..Len(thisXs) : thisXs[i] = otherXs[i]

\* #assertEqualBn254(otherX) of the point this: it compares this.x with otherX
assertEqualBn254(this, otherX) ==
  limbsAssertEqual(foreignFieldtoFieldsBn254(this.x), foreignFieldtoFieldsBn254(otherX))

\* this.assertEquals(other)
groupAssertEquals(this, other) ==
  assertEqualBn254(this, other.x) /\ assertEqualBn254(this, other.y)

\* coordinates of the points tried
GroupCoords == {<<0, 0, 0>>, <<1, 0, 0>>, <<0, lMask, 0>>}

\* ForeignGroup points
GroupPoints == {[x |-> a, y |-> b] : a \in GroupCoords, b \in GroupCoords}

InitGroup ==
  /\ op = "none"
  /\ mode \in Modes
  /\ f = 0
  /\ xs \in {<<this, other>> : this \in GroupPoints, other \in GroupPoints}
  /\ signs = <<>>
  /\ args = <<>>
  /\ ok = FALSE
  /\ out = <<>>
  /\ NoUnconstrained

GroupAssertEquals ==
  /\ op = "none"
  /\ ok' = groupAssertEquals(xs[1], xs[2])
  /\ op' = "assertEquals"
  /\ UNCHANGED <<mode, f, xs, signs, args, out>>
  /\ UNCHANGED <<runMode, inProverBlock, heap, option>>

NextGroup == GroupAssertEquals

SpecGroup == InitGroup /\ [][NextGroup]_vars

\* C29 as stated: assertEquals succeeds if and only if every limb of this.x
\* equals the limb of other.x and every limb of this.y equals the limb of
\* other.y
C29_GroupAssertEquals ==
  op = "assertEquals"
    => (ok <=> /\ \A i \in 1..3 : xs[1].x[i] = xs[2].x[i]
               /\ \A i \in 1..3 : xs[1].y[i] = xs[2].y[i])

\* what holds: assertEquals succeeds exactly when this.x equals both other.x
\* and other.y; this.y is never looked at
GroupAssertEqualsActual ==
  op = "assertEquals" => (ok <=> (xs[1].x = xs[2].x /\ xs[1].x = xs[2].y))

\* C26 as stated: for every n and every quotientBits, divMod32 on a constant
\* succeeds exactly when it succeeds on a variable holding the same value, and
\* then returns the same quotient and remainder
C26_DivMod32Modes ==
  op = "divMod32Bits"
    => [ok |-> ok, val |-> out] = divMod32(xs[1], args[1], ~isConstant)

\* what holds: the two modes agree for the default width, where the 64-bit
\* assertion and the 32-bit range check of the quotient are the same bound;
\* in general a constant passes when n < 2^64 and a variable when
\* n < 2^(quotientBits + 32)
DivMod32ModesActual ==
  /\ op = "divMod32" => [ok |-> ok, val |-> out] = GadgetDivMod32(xs[1], ~isConstant)
  /\ op = "divMod32Bits"
       => (ok <=> xs[1] < (IF isConstant THEN 2 ^ bits64 ELSE 2 ^ (args[1] + bits32)))

\* C27 as stated: for every bytesPerWord and every word at most one byte array
\* of that length satisfies bytesToWord(bytes) = word, also when
\* 2^(8 * bytesPerWord) exceeds the native modulus
C27_WordToBytesUnique ==
  op = "wordToBytes" => Cardinality(acceptedBytes(args[1], args[2])) <= 1

\* what holds: the accepted byte array is unique whenever 2^(8 * bytesPerWord)
\* does not exceed the native modulus
WordToBytesUniqueSmall ==
  (op = "wordToBytes" /\ byteShift(args[2]) <= p)
    => Cardinality(acceptedBytes(args[1], args[2])) <= 1

\* C28: for every word of 2^(8 * bytesPerWord) or more wordToBytes fails and
\* returns no bytes; for every word below it succeeds and returns byte k equal
\* to (word >> 8k) & 0xff
C28_WordToBytesFits ==
  op = "wordToBytes"
    => /\ args[1] >= byteShift(args[2]) => (~ok /\ out = <<>>)
       /\ args[1] < byteShift(args[2])
            => /\ ok
               /\ Len(out) = args[2]
               /\ \A k \in 1..args[2] : out[k] = (args[1] \div byteShift(k - 1)) % (2 ^ byteBits)

\* C28 witness: a word of exactly 2^(8 * bytesPerWord) is rejected
C28_Witness ==
  /\ op = "wordToBytes" /\ ~ok
  /\ args[2] > 0 /\ args[1] = byteShift(args[2])

(***************************************************************************)
(* Unconstrained containers (SpecUnc)                                      *)
(***************************************************************************)
\* most option objects a run creates
MaxOptions == 4

\* the values stored; a value is kept as <<v>> and undefined as <<>>
UncValues == {<<0>>, <<1>>}

\* how the program is run: outside any checked computation, while compiling
\* (prover blocks are skipped), or as the prover
RunModes == {"plain", "compile", "prove"}

inCheckedComputation == runMode # "plain"

\* new Unconstrained(isSome, value): this.option = { isSome, value }
newOption(isSome, value) == [isSome |-> isSome, value |-> value]

\* the heap after creating an option object, and the reference to it
alloc(h, opt) == Append(h, opt)

\* mutant of get: the context is not checked
uncGetAnywhere(opt, checked, proverBlock) ==
  IF ~opt.isSome
  THEN [ok |-> FALSE, val |-> <<>>, err |-> "empty"]
  ELSE [ok |-> TRUE, val |-> opt.value, err |-> "none"]

\* get(): throws in provable code, asserts isSome, returns option.value
uncGet(opt, checked, proverBlock) ==
  IF checked /\ ~proverBlock
  THEN [ok |-> FALSE, val |-> <<>>, err |-> "provable"]
  ELSE IF ~opt.isSome
       THEN [ok |-> FALSE, val |-> <<>>, err |-> "empty"]
       ELSE [ok |-> TRUE, val |-> opt.value, err |-> "none"]

\* mutant of set: the option object is updated in place
uncSetInPlace(h, o, b, value) ==
  [heap |-> [h EXCEPT ![o[b]] = newOption(TRUE, value)], option |-> o]

\* set(value): this.option = { isSome: true, value }, a new object
uncSet(h, o, b, value) ==
  [heap |-> alloc(h, newOption(TRUE, value)), option |-> [o EXCEPT ![b] = Len(h) + 1]]

\* Unconstrained.from(value): new Unconstrained(true, value), named b
uncFrom(h, o, b, value) ==
  [heap |-> alloc(h, newOption(TRUE, value)), option |-> [o EXCEPT ![b] = Len(h) + 1]]

\* a.setTo(b): this.option = value.option, the same object
uncSetTo(h, o, a, b) == [heap |-> h, option |-> [o EXCEPT ![a] = o[b]]]

\* provable.toAuxiliary(t): [t ?? new Unconstrained(false)]; t is <<>> for
\* undefined or holds a container
toAuxiliary(t) == IF t = <<>> THEN <<newOption(FALSE, <<>>)>> ELSE t

\* provable.fromFields(_, [t]) => t
fromFields(fields, aux) == aux[1]

\* the value Provable.witness hands to toAuxiliary: the computed container
\* when the callback runs, undefined while compiling
witnessValue(value) ==
  IF runMode = "compile" THEN <<>> ELSE <<newOption(TRUE, value)>>

\* the function passed to updateAsProver in the runs explored
compute(value) == <<1 - value[1]>>

\* the gadget variables are not used by the containers
gadgetsIdle ==
  /\ mode = "constant" /\ f = 0 /\ xs = <<>> /\ signs = <<>>

InitUnc ==
  /\ op = "none"
  /\ gadgetsIdle
  /\ args = <<>>
  /\ ok = FALSE
  /\ out = <<>>
  /\ runMode \in RunModes
  /\ inProverBlock = FALSE
  /\ heap = <<>>
  /\ option = [b \in Boxes |-> 0]

\* the callback of Provable.witness or Provable.asProver starts; it only runs
\* as a prover block when proving
EnterProverBlock ==
  /\ runMode = "prove" /\ ~inProverBlock
  /\ inProverBlock' = TRUE
  /\ op' = "enterProverBlock"
  /\ UNCHANGED <<mode, f, xs, signs, args, ok, out, runMode, heap, option>>

ExitProverBlock ==
  /\ inProverBlock
  /\ inProverBlock' = FALSE
  /\ op' = "exitProverBlock"
  /\ UNCHANGED <<mode, f, xs, signs, args, ok, out, runMode, heap, option>>

\* a result of uncSet or uncSetTo becomes the state
store(r) == heap' = r.heap /\ option' = r.option

\* b = Unconstrained.from(value)
UncFrom ==
  /\ Len(heap) < MaxOptions
  /\ \E b \in Boxes, value \in UncValues :
       /\ store(uncFrom(heap, option, b, value))
       /\ args' = <<b, value>>
  /\ op' = "from"
  /\ UNCHANGED <<mode, f, xs, signs, ok, out, runMode, inProverBlock>>

\* b.set(value)
UncSet ==
  /\ Len(heap) < MaxOptions
  /\ \E b \in Boxes, value \in UncValues :
       /\ option[b] # 0
       /\ store(uncSet(heap, option, b, value))
       /\ args' = <<b, value>>
  /\ op' = "set"
  /\ UNCHANGED <<mode, f, xs, signs, ok, out, runMode, inProverBlock>>

\* a.setTo(b)
UncSetTo ==
  /\ \E a \in Boxes, b \in Boxes :
       /\ option[a] # 0 /\ option[b] # 0
       /\ store(uncSetTo(heap, option, a, b))
       /\ args' = <<a, b>>
  /\ op' = "setTo"
  /\ UNCHANGED <<mode, f, xs, signs, ok, out, runMode, inProverBlock>>

\* b.get()
UncGet ==
  /\ \E b \in Boxes :
       /\ option[b] # 0
       /\ LET r == uncGet(heap[option[b]], inCheckedComputation, inProverBlock)
          IN ok' = r.ok /\ out' = r.val /\ args' = <<b, r.err>>
  /\ op' = "get"
  /\ UNCHANGED <<mode, f, xs, signs, runMode, inProverBlock, heap, option>>

\* b = Unconstrained.witness(() => value):
\* fromFields([], toAuxiliary(proverValue))
UncWitness ==
  /\ Len(heap) < MaxOptions
  /\ \E b \in Boxes, value \in UncValues :
       /\ heap' = alloc(heap, fromFields(<<>>, toAuxiliary(witnessValue(value))))
       /\ option' = [option EXCEPT ![b] = Len(heap) + 1]
       /\ args' = <<b, value>>
  /\ op' = "witness"
  /\ UNCHANGED <<mode, f, xs, signs, ok, out, runMode, inProverBlock>>

\* provable.fromFields([], provable.toAuxiliary(t)) as generic code over
\* provable types calls it: with a container t it returns t itself, with
\* undefined it returns a new container, which b then names
UncFromFields ==
  /\ Len(heap) < MaxOptions
  /\ \E b \in Boxes, t \in {<<>>} \cup {<<c>> : c \in {d \in Boxes : option[d] # 0}} :
       /\ IF t = <<>>
          THEN /\ heap' = alloc(heap, fromFields(<<>>, toAuxiliary(t)))
               /\ option' = [option EXCEPT ![b] = Len(heap) + 1]
          ELSE UNCHANGED <<heap, option>>
       /\ args' = <<b, t>>
  /\ op' = "fromFields"
  /\ UNCHANGED <<mode, f, xs, signs, ok, out, runMode, inProverBlock>>

\* b.updateAsProver(compute): Provable.asProver(() => this.set(compute(this.get())));
\* the block is skipped while compiling and throws when get() throws
UncUpdateAsProver ==
  /\ Len(heap) < MaxOptions
  /\ \E b \in Boxes :
       /\ option[b] # 0
       /\ LET r == uncGet(heap[option[b]], inCheckedComputation, TRUE)
          IN IF runMode = "compile"
             THEN UNCHANGED <<heap, option, ok, out>> /\ args' = <<b, "none">>
             ELSE IF r.ok
                  THEN /\ store(uncSet(heap, option, b, compute(r.val)))
                       /\ UNCHANGED <<ok, out>>
                       /\ args' = <<b, r.err>>
                  ELSE /\ ok' = FALSE /\ out' = <<>> /\ args' = <<b, r.err>>
                       /\ UNCHANGED <<heap, option>>
  /\ op' = "updateAsProver"
  /\ UNCHANGED <<mode, f, xs, signs, runMode, inProverBlock>>

NextUnc ==
  \/ EnterProverBlock \/ ExitProverBlock
  \/ UncFrom \/ UncSet \/ UncSetTo \/ UncGet
  \/ UncWitness \/ UncFromFields \/ UncUpdateAsProver

SpecUnc == InitUnc /\ [][NextUnc]_vars

(***************************************************************************)
(* Claims on Unconstrained                                                 *)
(***************************************************************************)
\* the option object a container holds, in a given heap
contentIn(h, o, b) == h[o[b]]

\* the option object a container holds now
content(b) == contentIn(heap, option, b)

\* C23: while a checked computation runs and execution is not inside a prover
\* block, get() throws and returns no value; outside checked computations and
\* inside prover blocks, get() on a non-empty container returns the value it
\* holds
C23_GetContext ==
  op = "get"
    => /\ (runMode # "plain" /\ ~inProverBlock)
            => (~ok /\ out = <<>> /\ args[2] = "provable")
       /\ ((runMode = "plain" \/ inProverBlock) /\ content(args[1]).isSome)
            => (ok /\ out = content(args[1]).value /\ out \in UncValues)

\* C23 witness: inside a prover block get() has returned a stored value
C23_Witness ==
  /\ op = "get" /\ runMode = "prove" /\ inProverBlock
  /\ ok /\ out = <<1>>

\* C24 as stated: when running as the prover, every container is non-empty
\* and get() never fails its 'Empty Unconstrained' assertion
C24_NeverEmptyInProver ==
  runMode = "prove"
    => /\ \A b \in Boxes : option[b] # 0 => content(b).isSome
       /\ op \in {"get", "updateAsProver"} => args[2] # "empty"

\* what holds: without a call of toAuxiliary that has no argument, no option
\* object of a proving or plain run is empty
EmptyOnlyFromAuxiliary ==
  [][(runMode # "compile" /\ op' # "fromFields")
       => (\A i \in 1..Len(heap') : i > Len(heap) => heap'[i].isSome)]_vars

\* C30: right after a.setTo(b) the two containers hold the same option, the
\* one b held; set(v) on a container makes it hold v; and set and setTo on
\* one container leave the content of every other container as it was, also
\* when the two were linked by an earlier setTo
C30_SetToFrame ==
  [][/\ op' = "setTo"
          => /\ contentIn(heap', option', args'[1]) = content(args'[2])
             /\ contentIn(heap', option', args'[2]) = content(args'[2])
     /\ op' = "set" => contentIn(heap', option', args'[1]) = newOption(TRUE, args'[2])
     /\ op' \in {"set", "setTo"}
          => \A c \in Boxes \ {args'[1]} :
               option[c] # 0 => (option'[c] # 0 /\ contentIn(heap', option', c) = content(c))]_vars

\* C30 witness: a was set to b and b was then given another value; a still
\* holds the value copied
C30_Witness ==
  /\ op = "set" /\ args = <<"b", <<1>>>>
  /\ option["a"] # 0 /\ content("a") = newOption(TRUE, <<0>>)
  /\ content("b") = newOption(TRUE, <<1>>)
  /\ \E i \in 1..Len(heap) : i # option["a"] /\ i # option["b"] /\ heap[i] = content("a")

====
